---- MODULE Spec2Model ----
(***************************************************************************)
(* The pinia store `user` of frontend/src/stores/userStore.ts as a state   *)
(* machine.  The store's five fields, document.cookie and window.location  *)
(* are the browser-side state; every invocation of an action occupies a    *)
(* slot whose position (pc) moves from one `await` to the next.  The       *)
(* remote JSON API is the environment: it answers each request in flight   *)
(* with any status, with a transport error or with an unreadable body;     *)
(* what it stores (the profile of record, the hobby catalogue) follows     *)
(* section 6 of the specification.                                         *)
(***************************************************************************)
EXTENDS Integers, Sequences, FiniteSets, TLC

VARIABLES
    cookie,        \* document.cookie: the cookies in order, "n1=v1; n2=v2"
    userData,      \* state.userData
    similarUsers,  \* state.similarUsers
    currentPage,   \* state.currentPage
    totalPages,    \* state.totalPages
    hobbies,       \* state.hobbies
    location,      \* window.location
    srvProfile,    \* remote API: the profile of record
    srvHobbies,    \* remote API: the hobby catalogue
    op,            \* per slot: the action that was invoked
    frame,         \* per slot: the function suspended at its await
    pc,            \* per slot: position of the invocation
    arg,           \* per slot: the argument of the invocation
    req,           \* per slot: the request in flight
    resp,          \* per slot: the response to the action's own request
    refetched,     \* per slot: the response to the request of the action it awaits
    result,        \* per slot: the value the invocation resolved to
    reqs,          \* per slot: the requests the invocation has issued
    navs,          \* per slot: the navigations the invocation has forced
    landed,        \* the slot and body of the last readable 2xx answer to GET /api/profile/
                   \* that a fetchUserProfile was resumed with
    shown          \* the body of the last readable 2xx answer that a
                   \* fetchSimilarUsers was resumed with

store == <<userData, similarUsers, currentPage, totalPages, hobbies>>
server == <<srvProfile, srvHobbies>>
slots == <<op, frame, pc, arg, req, resp, refetched, result, reqs, navs>>
vars == <<cookie, userData, similarUsers, currentPage, totalPages, hobbies,
          location, srvProfile, srvHobbies, op, frame, pc, arg, req, resp,
          refetched, result, reqs, navs, landed, shown>>

(***************************************************************************)
(* Bounds of the model.                                                    *)
(***************************************************************************)
MaxCalls == 2      \* invocations of a run, each in a slot of its own
MaxHobbies == 2    \* hobbies the catalogue may hold, and the largest id
MaxPage == 2       \* largest page number asked for or reported

Procs == 1..MaxCalls
HobbyIds == 1..MaxHobbies
Pages == 1..MaxPage

(***************************************************************************)
(* JavaScript values that may be null, undefined, a string or a number.    *)
(***************************************************************************)
Null == [type |-> "null"]
Undefined == [type |-> "undefined"]
Str(s) == [type |-> "string", value |-> s]
Num(n) == [type |-> "number", value |-> n]

\* JavaScript truthiness, as `!v`, `v || d` and `if (v)` test it
Truthy(v) ==
    CASE v.type = "null" -> FALSE
      [] v.type = "undefined" -> FALSE
      [] v.type = "string" -> v.value # ""
      [] v.type = "number" -> v.value # 0
      [] OTHER -> TRUE

\* a || b
OrElse(a, b) == IF Truthy(a) THEN a ELSE b

\* thrown and rejected values: new Error(m), fetch's TypeError, json()'s SyntaxError
ErrorObj(m) == [type |-> "Error", value |-> m]
FetchRejection == [type |-> "TypeError", value |-> "Failed to fetch"]
JsonRejection == [type |-> "SyntaxError", value |-> "Unexpected token"]

(***************************************************************************)
(* getCookie.  document.cookie is "n1=v1; n2=v2"; it is kept here as the   *)
(* sequence of its [name, value] entries.  "; " + document.cookie split at *)
(* "; name=" has one more part than there are entries called name.         *)
(***************************************************************************)
RECURSIVE CookieParts(_, _)
CookieParts(doc, name) ==
    IF doc = <<>> THEN <<>>
    ELSE (IF Head(doc).name = name THEN <<Head(doc).value>> ELSE <<>>)
         \o CookieParts(Tail(doc), name)

\* getCookie without the test of parts.length: with no entry called name,
\* parts.pop() is the whole of "; " + document.cookie
getCookie_unchecked(doc, name) ==
    LET parts == CookieParts(doc, name)
    IN  IF parts = <<>> THEN Str("; ")
        ELSE OrElse(Str(parts[Len(parts)]), Null)

getCookie(doc, name) ==
    LET parts == CookieParts(doc, name)
    IN  IF Len(parts) + 1 = 2 THEN OrElse(Str(parts[Len(parts)]), Null)
        ELSE Null

(***************************************************************************)
(* Data of the model.  A Hobby is [id, name]; a User is [first_name,       *)
(* hobbies] with hobbies the ids attached to the profile (the other fields *)
(* of interfaces.ts are carried and never inspected by the store).         *)
(***************************************************************************)
HobbyNames == {"Chess", "Go"}
FirstNames == {"Ann", "Bob"}
Hobby(i, n) == [id |-> i, name |-> n]
Hobbies == {Hobby(i, n) : i \in HobbyIds, n \in HobbyNames}
Users == [first_name : FirstNames, hobbies : SUBSET HobbyIds]

\* an element of updatedData.hobbies: a raw id or a Hobby object
RawId(i) == [kind |-> "number", value |-> i]
HobbyObj(h) == [kind |-> "object", id |-> h.id, name |-> h.name]
HobbyRefs == {RawId(i) : i \in HobbyIds} \cup {HobbyObj(h) : h \in Hobbies}

RECURSIVE SeqsUpTo(_, _)
SeqsUpTo(S, n) ==
    IF n = 0 THEN {<<>>}
    ELSE LET shorter == SeqsUpTo(S, n - 1)
         IN  shorter \cup {Append(q, x) : q \in shorter, x \in S}

Range(q) == {q[i] : i \in DOMAIN q}

(***************************************************************************)
(* updateProfile's request body.                                           *)
(***************************************************************************)
\* updatedData.hobbies?.map(hobby => typeof hobby === 'number' ? hobby : hobby.id)
HobbyToId(hobby) == IF hobby.kind = "number" THEN hobby.value ELSE hobby.id

\* the mapping keeping the raw ids and leaving the Hobby objects out
MapHobbies_rawIdsOnly(updatedData) ==
    IF "hobbies" \in DOMAIN updatedData
    THEN [defined |-> TRUE,
          value |-> LET raw == SelectSeq(updatedData.hobbies,
                                         LAMBDA h : h.kind = "number")
                    IN  [i \in DOMAIN raw |-> raw[i].value]]
    ELSE [defined |-> FALSE]

MapHobbies(updatedData) ==
    IF "hobbies" \in DOMAIN updatedData
    THEN [defined |-> TRUE,
          value |-> [i \in DOMAIN updatedData.hobbies |->
                        HobbyToId(updatedData.hobbies[i])]]
    ELSE [defined |-> FALSE]

\* { ...updatedData, hobbies: <mapped> }: the key hobbies is always there
formattedData(updatedData) ==
    [k \in DOMAIN updatedData \cup {"hobbies"} |->
        IF k = "hobbies" THEN MapHobbies(updatedData) ELSE updatedData[k]]

\* JSON.stringify leaves out the keys whose value is undefined
JSONstringify(fd) ==
    [k \in {j \in DOMAIN fd : j = "hobbies" => fd[j].defined} |->
        IF k = "hobbies" THEN fd[k].value ELSE fd[k]]

(***************************************************************************)
(* fetchSimilarUsers' query string.                                        *)
(***************************************************************************)
RECURSIVE JoinParams(_)
JoinParams(q) ==
    IF q = <<>> THEN ""
    ELSE Head(q)[1] \o "=" \o Head(q)[2]
         \o (IF Tail(q) = <<>> THEN "" ELSE "&" \o JoinParams(Tail(q)))

\* the URLSearchParams built from params, as its list of (key, value) pairs
queryParams(params) ==
    <<<<"page", ToString(params.page)>>>>
    \o (IF Truthy(params.minAge)
        THEN <<<<"min_age", ToString(params.minAge.value)>>>> ELSE <<>>)
    \o (IF Truthy(params.maxAge)
        THEN <<<<"max_age", ToString(params.maxAge.value)>>>> ELSE <<>>)

SimilarUrl(params) ==
    "/api/users/similar_with_filters/?" \o JoinParams(queryParams(params))

(***************************************************************************)
(* Requests and responses.                                                 *)
(***************************************************************************)
NoReq == [method |-> "none"]
NoResp == [kind |-> "none"]
Get(url) == [method |-> "GET", url |-> url]
Send(method, url, token, body) ==
    [method |-> method, url |-> url, csrf |-> token.value, body |-> body]

NetErr == [kind |-> "neterr"]
Http(status, readable, body) ==
    [kind |-> "http", status |-> status, json |-> readable, body |-> body]

\* response.ok
ok(response) == response.status >= 200 /\ response.status <= 299

\* what `await fetch(...)` followed by `await response.json()` comes to
Rejected(response) == response.kind = "neterr"
Unreadable(response) == response.kind = "http" /\ ~response.json

\* a 2xx response whose body parses: the fetch actions reach their assignments
Assigns(r) == r.kind = "http" /\ ok(r) /\ r.json

(***************************************************************************)
(* The remote API.  A request in flight is answered by a transport error,  *)
(* by a failure status, by a 2xx whose body does not parse, or as section  *)
(* 6 of the specification describes the endpoint.  Each answer is          *)
(* [resp, profile, hobbies]: the response and the data the server then     *)
(* holds.                                                                  *)
(***************************************************************************)
ErrorTexts == {"", "Invalid data"}
UserLists == {<<>>, <<"bob">>}

Answer(r) == [resp |-> r, profile |-> srvProfile, hobbies |-> srvHobbies]

Refusals ==
    {Answer(NetErr), Answer(Http(200, FALSE, <<>>))}
    \cup {Answer(Http(st, TRUE, [errors |-> Str("Invalid data")])) :
            st \in {401, 403, 500}}

PutProfile(body) ==
    [first_name |-> IF "first_name" \in DOMAIN body
                    THEN body.first_name ELSE srvProfile.first_name,
     hobbies |-> IF "hobbies" \in DOMAIN body
                 THEN Range(body.hobbies) ELSE srvProfile.hobbies]

Logical(e) == Answer(Http(200, TRUE, [status |-> "error", errors |-> Str(e)]))

Answers(rq) ==
    CASE rq.method = "GET" /\ rq.url = "/api/profile/" ->
            Refusals \cup {Answer(Http(200, TRUE, srvProfile))}
      [] rq.method = "PUT" /\ rq.url = "/api/profile/" ->
            Refusals
            \cup {Answer(Http(400, TRUE, [errors |-> Str(e)])) : e \in ErrorTexts}
            \cup {Answer(Http(502, FALSE, <<>>))}   \* a refusal that is not JSON
            \cup {[resp |-> Http(200, TRUE, [status |-> "success"]),
                   profile |-> PutProfile(rq.body), hobbies |-> srvHobbies]}
      [] rq.method = "POST" /\ rq.url = "/api/hobbies/" ->
            Refusals \cup {Logical("Invalid data")}
            \cup (IF Len(srvHobbies) < MaxHobbies
                  THEN LET h == Hobby(Len(srvHobbies) + 1, rq.body.name)
                       IN  {[resp |-> Http(200, TRUE,
                                           [status |-> "success", hobby |-> h]),
                             profile |-> srvProfile,
                             hobbies |-> Append(srvHobbies, h)]}
                  ELSE {})
      [] rq.method = "GET" /\ rq.url = "/api/hobbies/" ->
            Refusals \cup {Answer(Http(200, TRUE, [hobbies |-> srvHobbies]))}
      [] rq.method = "POST" /\ rq.url = "/api/profile/add_hobby" ->
            Refusals \cup {Logical("Invalid data")}
            \cup {[resp |-> Http(200, TRUE, [status |-> "success"]),
                   profile |-> [srvProfile EXCEPT
                                  !.hobbies = @ \cup {rq.body.hobby_id}],
                   hobbies |-> srvHobbies]}
      [] rq.method = "POST" /\ rq.url = "/api/profile/delete_hobby" ->
            Refusals \cup {Logical("Invalid data")}
            \cup {[resp |-> Http(200, TRUE, [status |-> "success"]),
                   profile |-> [srvProfile EXCEPT
                                  !.hobbies = @ \ {rq.body.hobby_id}],
                   hobbies |-> srvHobbies]}
      [] rq.method = "POST" /\ rq.url = "/api/send_request/" ->
            Refusals \cup {Answer(Http(200, TRUE, [status |-> "success"]))}
      [] OTHER ->   \* GET /api/users/similar_with_filters/?...
            Refusals
            \cup {Answer(Http(200, TRUE,
                              [similar_users |-> u, page |-> pg, total_pages |-> tp])) :
                    u \in UserLists, pg \in Pages, tp \in Pages}

(***************************************************************************)
(* Initial state: the store as `state()` builds it, no invocation yet.     *)
(***************************************************************************)
Cookie(n, v) == [name |-> n, value |-> v]
CookieJars ==
    {<<>>,
     <<Cookie("sessionid", "s1"), Cookie("csrftoken", "tok")>>,
     <<Cookie("csrftoken", "")>>,
     <<Cookie("csrftoken", "tok"), Cookie("csrftoken", "tok")>>}

NoneLanded == [slot |-> 0]
NoneShown == [page |-> 0]

Init ==
    /\ cookie \in CookieJars
    /\ userData = Null
    /\ similarUsers = <<>>
    /\ currentPage = 1
    /\ totalPages = 1
    /\ hobbies = <<>>
    /\ location = "/"
    /\ srvProfile = [first_name |-> "Ann", hobbies |-> {}]
    /\ srvHobbies = <<>>
    /\ op = [p \in Procs |-> "none"]
    /\ frame = [p \in Procs |-> "none"]
    /\ pc = [p \in Procs |-> "idle"]
    /\ arg = [p \in Procs |-> Undefined]
    /\ req = [p \in Procs |-> NoReq]
    /\ resp = [p \in Procs |-> NoResp]
    /\ refetched = [p \in Procs |-> NoResp]
    /\ result = [p \in Procs |-> Undefined]
    /\ reqs = [p \in Procs |-> <<>>]
    /\ navs = [p \in Procs |-> 0]
    /\ landed = NoneLanded
    /\ shown = NoneShown

(***************************************************************************)
(* How a slot moves.                                                       *)
(***************************************************************************)
\* slots are taken in order, one per invocation: slot p was invoked before slot q
\* exactly when p < q
Free(p) == pc[p] = "idle" /\ \A q \in Procs : q < p => pc[q] # "idle"
Line(rq) == <<rq.method, rq.url>>

\* the response the suspended function of slot p is resumed with
Awaited(p) == IF frame[p] = op[p] THEN resp[p] ELSE refetched[p]

\* the record of an invocation that returned is dropped when the next one starts
Drop(f, p, fresh, blank) ==
    [q \in Procs |-> IF q = p THEN fresh ELSE IF pc[q] = "done" THEN blank ELSE f[q]]

\* a new invocation of action `name` that issues rq from function fr
Begin(p, name, fr, a, rq) ==
    /\ op' = Drop(op, p, name, "none")
    /\ frame' = Drop(frame, p, fr, "none")
    /\ pc' = Drop(pc, p, "sent", "past")
    /\ arg' = Drop(arg, p, a, Undefined)
    /\ req' = [req EXCEPT ![p] = rq]
    /\ resp' = Drop(resp, p, NoResp, NoResp)
    /\ refetched' = Drop(refetched, p, NoResp, NoResp)
    /\ result' = Drop(result, p, Undefined, Undefined)
    /\ reqs' = Drop(reqs, p, <<Line(rq)>>, <<>>)
    /\ navs' = Drop(navs, p, 0, 0)

\* a new invocation of action `name` that returns res without a request
Short(p, name, a, res) ==
    /\ op' = Drop(op, p, name, "none")
    /\ frame' = Drop(frame, p, name, "none")
    /\ pc' = Drop(pc, p, "done", "past")
    /\ arg' = Drop(arg, p, a, Undefined)
    /\ req' = [req EXCEPT ![p] = NoReq]
    /\ resp' = Drop(resp, p, NoResp, NoResp)
    /\ refetched' = Drop(refetched, p, NoResp, NoResp)
    /\ result' = Drop(result, p, res, Undefined)
    /\ reqs' = Drop(reqs, p, <<>>, <<>>)
    /\ navs' = Drop(navs, p, 0, 0)

\* the invocation of slot p returns res
End(p, res) ==
    /\ pc' = [pc EXCEPT ![p] = "done"]
    /\ req' = [req EXCEPT ![p] = NoReq]
    /\ result' = [result EXCEPT ![p] = res]
    /\ UNCHANGED <<op, frame, arg, resp, refetched, reqs>>

\* the action of slot p calls the fetch action fr, which issues rq, and awaits it
Nested(p, fr, rq) ==
    /\ frame' = [frame EXCEPT ![p] = fr]
    /\ pc' = [pc EXCEPT ![p] = "sent"]
    /\ req' = [req EXCEPT ![p] = rq]
    /\ reqs' = [reqs EXCEPT ![p] = Append(@, Line(rq))]
    /\ UNCHANGED <<op, arg, resp, refetched, result, navs>>

\* the fetch action of slot p is over: its caller, if any, resumes later
Over(p) ==
    IF frame[p] = op[p]
    THEN End(p, Undefined)
    ELSE /\ frame' = [frame EXCEPT ![p] = op[p]]
         /\ pc' = [pc EXCEPT ![p] = "ret"]
         /\ req' = [req EXCEPT ![p] = NoReq]
         /\ UNCHANGED <<op, arg, resp, refetched, result, reqs>>

(***************************************************************************)
(* The environment: the cookie store changes, the API answers.             *)
(***************************************************************************)
SetCookie ==
    /\ \E jar \in CookieJars : cookie' = jar
    /\ cookie' # cookie
    /\ UNCHANGED <<store, location, server, slots, landed, shown>>

Network(p) ==
    /\ pc[p] = "sent"
    /\ \E a \in Answers(req[p]) :
        /\ IF frame[p] = op[p]
           THEN resp' = [resp EXCEPT ![p] = a.resp] /\ UNCHANGED refetched
           ELSE refetched' = [refetched EXCEPT ![p] = a.resp] /\ UNCHANGED resp
        /\ srvProfile' = a.profile
        /\ srvHobbies' = a.hobbies
    /\ pc' = [pc EXCEPT ![p] = "recv"]
    /\ UNCHANGED <<cookie, store, location, op, frame, arg, req, result, reqs,
                   navs, landed, shown>>

(***************************************************************************)
(* Results of the mutating actions.                                        *)
(***************************************************************************)
Success == [success |-> TRUE]
Failure(e) == [success |-> FALSE, error |-> e]
CsrfFailure == Failure(Str("CSRF token not found"))
Succeeded(res) == "success" \in DOMAIN res /\ res.success
Failed(res) == "success" \in DOMAIN res /\ ~res.success

Quiet == UNCHANGED <<cookie, store, location, server, landed, shown>>

(***************************************************************************)
(* fetchUserProfile                                                        *)
(***************************************************************************)
fetchUserProfile(p) ==
    /\ Free(p)
    /\ Begin(p, "fetchUserProfile", "fetchUserProfile", Undefined,
             Get("/api/profile/"))
    /\ Quiet

\* fetchUserProfile reading and assigning the body before it tests response.ok
profileOutcome_assignsFirst(r) ==
    IF Rejected(r) \/ Unreadable(r) THEN [assign |-> FALSE, navs |-> 1]
    ELSE [assign |-> TRUE, navs |-> IF ok(r) THEN 0 ELSE 1]

\* what the body of fetchUserProfile does with the response: whether it
\* assigns userData, and how many times it calls window.location.assign

\* fetchUserProfile navigating on a 401 or a 403 only
profileOutcome_authOnly(r) ==
    IF Rejected(r) THEN [assign |-> FALSE, navs |-> 0]
    ELSE IF ~ok(r)
         THEN IF r.status = 403 \/ r.status = 401
              THEN [assign |-> FALSE, navs |-> 1]
              ELSE [assign |-> FALSE, navs |-> 0]
         ELSE IF Unreadable(r) THEN [assign |-> FALSE, navs |-> 0]
              ELSE [assign |-> TRUE, navs |-> 0]

profileOutcome(r) ==
    IF Rejected(r) THEN [assign |-> FALSE, navs |-> 1]
    ELSE IF ~ok(r)
         THEN IF r.status = 403 \/ r.status = 401
              THEN [assign |-> FALSE, navs |-> 1]
              ELSE [assign |-> FALSE, navs |-> 1]
         ELSE IF Unreadable(r) THEN [assign |-> FALSE, navs |-> 1]
              ELSE [assign |-> TRUE, navs |-> 0]

\* fetchUserProfile dropping an answer when the answer to a later invocation
\* has already been applied
fetchUserProfile_settled_newestOnly(p) ==
    /\ pc[p] = "recv"
    /\ frame[p] = "fetchUserProfile"
    /\ LET r == Awaited(p)
           out == profileOutcome(r)
       IN  /\ userData' = IF out.assign /\ landed.slot <= p THEN r.body
                          ELSE userData
           /\ landed' = IF Assigns(r) THEN [slot |-> p, body |-> r.body]
                        ELSE landed
           /\ location' = IF out.navs > 0 THEN "/login/" ELSE location
           /\ navs' = [navs EXCEPT ![p] = @ + out.navs]
    /\ Over(p)
    /\ UNCHANGED <<cookie, similarUsers, currentPage, totalPages, hobbies, server,
                   shown>>

fetchUserProfile_settled(p) ==
    /\ pc[p] = "recv"
    /\ frame[p] = "fetchUserProfile"
    /\ LET r == Awaited(p)
           out == profileOutcome(r)
       IN  /\ userData' = IF out.assign THEN r.body ELSE userData
           /\ landed' = IF Assigns(r) THEN [slot |-> p, body |-> r.body]
                        ELSE landed
           /\ location' = IF out.navs > 0 THEN "/login/" ELSE location
           /\ navs' = [navs EXCEPT ![p] = @ + out.navs]
    /\ Over(p)
    /\ UNCHANGED <<cookie, similarUsers, currentPage, totalPages, hobbies, server,
                   shown>>

(***************************************************************************)
(* updateProfile                                                           *)
(***************************************************************************)
updateProfile(p, updatedData) ==
    /\ Free(p)
    /\ LET csrfToken == getCookie(cookie, "csrftoken")
       IN  IF ~Truthy(csrfToken)
           THEN Short(p, "updateProfile", updatedData, CsrfFailure)
           ELSE Begin(p, "updateProfile", "updateProfile", updatedData,
                      Send("PUT", "/api/profile/", csrfToken,
                           JSONstringify(formattedData(updatedData))))
    /\ Quiet

\* updateProfile returning success as soon as the PUT is accepted
updateOutcome_noRefetch(r) ==
    IF Rejected(r) THEN [refetch |-> FALSE, result |-> Failure(FetchRejection)]
    ELSE IF ~ok(r) THEN [refetch |-> FALSE, result |-> Failure(JsonRejection)]
    ELSE [refetch |-> FALSE, result |-> Success]

\* what updateProfile does with the response to its PUT

\* updateProfile reading the body of a refusal outside its try block
updateOutcome_uncaught(r) ==
    IF Rejected(r) THEN [refetch |-> FALSE, result |-> Failure(FetchRejection)]
    ELSE IF ~ok(r)
         THEN IF Unreadable(r)
              THEN [refetch |-> FALSE, result |-> [threw |-> JsonRejection]]
              ELSE [refetch |-> FALSE,
                    result |-> Failure(ErrorObj(
                        OrElse(r.body.errors, Str("Failed to update profile")).value))]
         ELSE [refetch |-> TRUE, result |-> Success]

updateOutcome(r) ==
    IF Rejected(r) THEN [refetch |-> FALSE, result |-> Failure(FetchRejection)]
    ELSE IF ~ok(r)
         THEN IF Unreadable(r)
              THEN [refetch |-> FALSE, result |-> Failure(JsonRejection)]
              ELSE [refetch |-> FALSE,
                    result |-> Failure(ErrorObj(
                        OrElse(r.body.errors, Str("Failed to update profile")).value))]
         ELSE [refetch |-> TRUE, result |-> Success]

updateProfile_settled(p) ==
    /\ pc[p] = "recv"
    /\ frame[p] = "updateProfile"
    /\ LET out == updateOutcome(resp[p])
       IN  IF out.refetch
           THEN Nested(p, "fetchUserProfile", Get("/api/profile/"))
           ELSE End(p, out.result) /\ UNCHANGED navs
    /\ Quiet


\* updateProfile reporting the failure of its refetch
updateProfile_return_checksRefetch(p) ==
    /\ pc[p] = "ret"
    /\ op[p] = "updateProfile"
    /\ End(p, IF Assigns(refetched[p]) THEN updateOutcome(resp[p]).result
              ELSE Failure(ErrorObj("Network response was not ok")))
    /\ UNCHANGED navs
    /\ Quiet

updateProfile_return(p) ==
    /\ pc[p] = "ret"
    /\ op[p] = "updateProfile"
    /\ End(p, updateOutcome(resp[p]).result)
    /\ UNCHANGED navs
    /\ Quiet

(***************************************************************************)
(* addHobby, addExistingHobbyToProfile, deleteHobbyFromProfile             *)
(***************************************************************************)
\* the three actions refetching on any readable 2xx, whatever its status field
statusOutcome_ignoresStatus(r, msg, extra) ==
    IF Rejected(r) THEN [refetch |-> FALSE, result |-> Failure(FetchRejection)]
    ELSE IF ~ok(r) THEN [refetch |-> FALSE, result |-> Failure(ErrorObj(msg))]
    ELSE IF Unreadable(r)
         THEN [refetch |-> FALSE, result |-> Failure(JsonRejection)]
    ELSE [refetch |-> TRUE, result |-> Success]

\* what the three do with the response to their POST; msg is the message of
\* the Error thrown on a failure status, extra the fields a success adds
statusOutcome(r, msg, extra) ==
    IF Rejected(r) THEN [refetch |-> FALSE, result |-> Failure(FetchRejection)]
    ELSE IF ~ok(r) THEN [refetch |-> FALSE, result |-> Failure(ErrorObj(msg))]
    ELSE IF Unreadable(r)
         THEN [refetch |-> FALSE, result |-> Failure(JsonRejection)]
    ELSE IF r.body.status = "success"
         THEN [refetch |-> TRUE,
               result |-> [k \in {"success"} \cup extra |->
                              IF k = "success" THEN TRUE ELSE r.body[k]]]
         ELSE [refetch |-> FALSE, result |-> Failure(r.body.errors)]

addHobby(p, hobbyName) ==
    /\ Free(p)
    /\ LET csrfToken == getCookie(cookie, "csrftoken")
       IN  IF ~Truthy(csrfToken)
           THEN Short(p, "addHobby", hobbyName, CsrfFailure)
           ELSE Begin(p, "addHobby", "addHobby", hobbyName,
                      Send("POST", "/api/hobbies/", csrfToken,
                           [name |-> hobbyName]))
    /\ Quiet

addHobbyOutcome(r) == statusOutcome(r, "Failed to add hobby", {"hobby"})


\* addHobby issuing its POST once more after a transport error
addHobby_settled_retries(p) ==
    /\ pc[p] = "recv"
    /\ frame[p] = "addHobby"
    /\ LET out == addHobbyOutcome(resp[p])
       IN  IF out.refetch
           THEN Nested(p, "fetchHobbies", Get("/api/hobbies/"))
           ELSE IF Rejected(resp[p]) /\ Len(reqs[p]) = 1
                THEN Nested(p, "addHobby", req[p])
                ELSE End(p, out.result) /\ UNCHANGED navs
    /\ Quiet

addHobby_settled(p) ==
    /\ pc[p] = "recv"
    /\ frame[p] = "addHobby"
    /\ LET out == addHobbyOutcome(resp[p])
       IN  IF out.refetch
           THEN Nested(p, "fetchHobbies", Get("/api/hobbies/"))
           ELSE End(p, out.result) /\ UNCHANGED navs
    /\ Quiet

addHobby_return(p) ==
    /\ pc[p] = "ret"
    /\ op[p] = "addHobby"
    /\ End(p, addHobbyOutcome(resp[p]).result)
    /\ UNCHANGED navs
    /\ Quiet

addExistingHobbyToProfile(p, hobbyId) ==
    /\ Free(p)
    /\ LET csrfToken == getCookie(cookie, "csrftoken")
       IN  IF ~Truthy(csrfToken)
           THEN Short(p, "addExistingHobbyToProfile", hobbyId, CsrfFailure)
           ELSE Begin(p, "addExistingHobbyToProfile", "addExistingHobbyToProfile",
                      hobbyId,
                      Send("POST", "/api/profile/add_hobby", csrfToken,
                           [hobby_id |-> hobbyId]))
    /\ Quiet

addExistingOutcome(r) == statusOutcome(r, "Failed to add hobby to profile", {})

addExistingHobbyToProfile_settled(p) ==
    /\ pc[p] = "recv"
    /\ frame[p] = "addExistingHobbyToProfile"
    /\ LET out == addExistingOutcome(resp[p])
       IN  IF out.refetch
           THEN Nested(p, "fetchUserProfile", Get("/api/profile/"))
           ELSE End(p, out.result) /\ UNCHANGED navs
    /\ Quiet

addExistingHobbyToProfile_return(p) ==
    /\ pc[p] = "ret"
    /\ op[p] = "addExistingHobbyToProfile"
    /\ End(p, addExistingOutcome(resp[p]).result)
    /\ UNCHANGED navs
    /\ Quiet

deleteHobbyFromProfile(p, hobbyId) ==
    /\ Free(p)
    /\ LET csrfToken == getCookie(cookie, "csrftoken")
       IN  IF ~Truthy(csrfToken)
           THEN Short(p, "deleteHobbyFromProfile", hobbyId, CsrfFailure)
           ELSE Begin(p, "deleteHobbyFromProfile", "deleteHobbyFromProfile",
                      hobbyId,
                      Send("POST", "/api/profile/delete_hobby", csrfToken,
                           [hobby_id |-> hobbyId]))
    /\ Quiet


\* deleteHobbyFromProfile taking a refusal of its POST for an acceptance
deleteHobbyOutcome_refetchesOnRefusal(r) ==
    IF Rejected(r) \/ ~ok(r) THEN [refetch |-> TRUE, result |-> Success]
    ELSE statusOutcome(r, "Failed to delete hobby from profile", {})

deleteHobbyOutcome(r) ==
    statusOutcome(r, "Failed to delete hobby from profile", {})

deleteHobbyFromProfile_settled(p) ==
    /\ pc[p] = "recv"
    /\ frame[p] = "deleteHobbyFromProfile"
    /\ LET out == deleteHobbyOutcome(resp[p])
       IN  IF out.refetch
           THEN Nested(p, "fetchUserProfile", Get("/api/profile/"))
           ELSE End(p, out.result) /\ UNCHANGED navs
    /\ Quiet

deleteHobbyFromProfile_return(p) ==
    /\ pc[p] = "ret"
    /\ op[p] = "deleteHobbyFromProfile"
    /\ End(p, deleteHobbyOutcome(resp[p]).result)
    /\ UNCHANGED navs
    /\ Quiet

(***************************************************************************)
(* fetchHobbies                                                            *)
(***************************************************************************)
fetchHobbies(p) ==
    /\ Free(p)
    /\ Begin(p, "fetchHobbies", "fetchHobbies", Undefined, Get("/api/hobbies/"))
    /\ Quiet

fetchHobbies_settled(p) ==
    /\ pc[p] = "recv"
    /\ frame[p] = "fetchHobbies"
    /\ LET r == Awaited(p)
       IN  hobbies' = IF Assigns(r) THEN r.body.hobbies ELSE hobbies
    /\ Over(p)
    /\ UNCHANGED <<cookie, userData, similarUsers, currentPage, totalPages,
                   location, server, navs, landed, shown>>

(***************************************************************************)
(* fetchSimilarUsers, fetchPage                                            *)
(***************************************************************************)
fetchSimilarUsers(p, params) ==
    /\ Free(p)
    /\ Begin(p, "fetchSimilarUsers", "fetchSimilarUsers", params,
             Get(SimilarUrl(params)))
    /\ Quiet

\* the assignments with page and total_pages taken for one another
pageAssign_swapped(data) ==
    [similarUsers |-> data.similar_users,
     currentPage |-> data.total_pages,
     totalPages |-> data.page]

\* the three assignments that follow `await response.json()`
pageAssign(data) ==
    [similarUsers |-> data.similar_users,
     currentPage |-> data.page,
     totalPages |-> data.total_pages]

\* fetchSimilarUsers emptying the page in its catch
fetchSimilarUsers_settled_resetsOnFailure(p) ==
    /\ pc[p] = "recv"
    /\ frame[p] = "fetchSimilarUsers"
    /\ LET r == Awaited(p)
       IN  IF Assigns(r)
           THEN /\ similarUsers' = pageAssign(r.body).similarUsers
                /\ currentPage' = pageAssign(r.body).currentPage
                /\ totalPages' = pageAssign(r.body).totalPages
           ELSE /\ similarUsers' = <<>>
                /\ currentPage' = 1
                /\ totalPages' = 1
    /\ shown' = IF Assigns(Awaited(p)) THEN Awaited(p).body ELSE shown
    /\ Over(p)
    /\ UNCHANGED <<cookie, userData, hobbies, location, server, navs, landed>>


\* fetchSimilarUsers suspended before its last assignment: while another
\* invocation is in flight totalPages is not yet written
fetchSimilarUsers_settled_awaitsBetween(p) ==
    /\ pc[p] = "recv"
    /\ frame[p] = "fetchSimilarUsers"
    /\ LET r == Awaited(p)
       IN  IF Assigns(r)
           THEN /\ similarUsers' = pageAssign(r.body).similarUsers
                /\ currentPage' = pageAssign(r.body).currentPage
                /\ totalPages' = IF \E q \in Procs \ {p} : pc[q] \in {"sent", "recv"}
                                 THEN totalPages
                                 ELSE pageAssign(r.body).totalPages
           ELSE UNCHANGED <<similarUsers, currentPage, totalPages>>
    /\ shown' = IF Assigns(Awaited(p)) THEN Awaited(p).body ELSE shown
    /\ Over(p)
    /\ UNCHANGED <<cookie, userData, hobbies, location, server, navs, landed>>

fetchSimilarUsers_settled(p) ==
    /\ pc[p] = "recv"
    /\ frame[p] = "fetchSimilarUsers"
    /\ LET r == Awaited(p)
       IN  IF Assigns(r)
           THEN /\ similarUsers' = pageAssign(r.body).similarUsers
                /\ currentPage' = pageAssign(r.body).currentPage
                /\ totalPages' = pageAssign(r.body).totalPages
           ELSE UNCHANGED <<similarUsers, currentPage, totalPages>>
    /\ shown' = IF Assigns(Awaited(p)) THEN Awaited(p).body ELSE shown
    /\ Over(p)
    /\ UNCHANGED <<cookie, userData, hobbies, location, server, navs, landed>>

fetchPage(p, page, minAge, maxAge) ==
    /\ Free(p)
    /\ LET params == [page |-> page, minAge |-> minAge, maxAge |-> maxAge]
       IN  Begin(p, "fetchPage", "fetchSimilarUsers", params,
                 Get(SimilarUrl(params)))
    /\ Quiet

fetchPage_return(p) ==
    /\ pc[p] = "ret"
    /\ op[p] = "fetchPage"
    /\ End(p, Undefined)
    /\ UNCHANGED navs
    /\ Quiet

(***************************************************************************)
(* sendFriendRequest                                                       *)
(***************************************************************************)
sendFriendRequest(p, username) ==
    /\ Free(p)
    /\ LET csrfToken == getCookie(cookie, "csrftoken")
       IN  IF ~Truthy(csrfToken)
           THEN Short(p, "sendFriendRequest", username, CsrfFailure)
           ELSE Begin(p, "sendFriendRequest", "sendFriendRequest", username,
                      Send("POST", "/api/send_request/", csrfToken,
                           [username |-> username]))
    /\ Quiet


\* sendFriendRequest reading the body of the answer before it returns
friendOutcome_readsBody(r) ==
    IF Rejected(r) THEN Failure(FetchRejection)
    ELSE IF ~ok(r) THEN Failure(ErrorObj("Failed to send friend request"))
    ELSE IF ~r.json THEN Failure(JsonRejection)
    ELSE Success

friendOutcome(r) ==
    IF Rejected(r) THEN Failure(FetchRejection)
    ELSE IF ~ok(r) THEN Failure(ErrorObj("Failed to send friend request"))
    ELSE Success

sendFriendRequest_settled(p) ==
    /\ pc[p] = "recv"
    /\ frame[p] = "sendFriendRequest"
    /\ End(p, friendOutcome(resp[p]))
    /\ UNCHANGED navs
    /\ Quiet

(***************************************************************************)
(* Inputs.                                                                 *)
(***************************************************************************)
Partial(keys, fn, hs) == [k \in keys |-> IF k = "first_name" THEN fn ELSE hs]

\* every Partial<User> whose hobbies list has at most n elements
Updates(n) ==
    {Partial(keys, fn, hs) : keys \in SUBSET {"first_name", "hobbies"},
                             fn \in FirstNames, hs \in SeqsUpTo(HobbyRefs, n)}

SomeUpdates ==
    {[first_name |-> "Bob"],
     [hobbies |-> <<RawId(1)>>],
     [first_name |-> "Ann",
      hobbies |-> <<HobbyObj(Hobby(MaxHobbies, "Go")), RawId(1)>>]}

Ages == {Null, Undefined, Num(0), Num(18), Num(30)}
Filters == [page : Pages, minAge : Ages, maxAge : Ages]
SomeFilters ==
    {[page |-> 1, minAge |-> Null, maxAge |-> Null],
     [page |-> MaxPage, minAge |-> Num(18), maxAge |-> Num(30)]}
Usernames == {"bob"}

(***************************************************************************)
(* The store with every action, one invocation at a time: an action is     *)
(* invoked when the one before it has returned.                            *)
(***************************************************************************)
Quiescent == \A q \in Procs : pc[q] \in {"idle", "done", "past"}

Invoke(p) ==
    \/ Quiescent /\ fetchUserProfile(p)
    \/ Quiescent /\ \E updatedData \in SomeUpdates : updateProfile(p, updatedData)
    \/ Quiescent /\ \E hobbyName \in HobbyNames : addHobby(p, hobbyName)
    \/ Quiescent /\ \E hobbyId \in HobbyIds : addExistingHobbyToProfile(p, hobbyId)
    \/ Quiescent /\ \E hobbyId \in HobbyIds : deleteHobbyFromProfile(p, hobbyId)
    \/ Quiescent /\ fetchHobbies(p)
    \/ Quiescent /\ \E params \in SomeFilters : fetchSimilarUsers(p, params)
    \/ Quiescent /\ \E params \in SomeFilters :
                       fetchPage(p, params.page, params.minAge, params.maxAge)
    \/ Quiescent /\ \E username \in Usernames : sendFriendRequest(p, username)

Resume(p) ==
    \/ Network(p)
    \/ fetchUserProfile_settled(p)
    \/ updateProfile_settled(p)
    \/ updateProfile_return(p)
    \/ addHobby_settled(p)
    \/ addHobby_return(p)
    \/ addExistingHobbyToProfile_settled(p)
    \/ addExistingHobbyToProfile_return(p)
    \/ deleteHobbyFromProfile_settled(p)
    \/ deleteHobbyFromProfile_return(p)
    \/ fetchHobbies_settled(p)
    \/ fetchSimilarUsers_settled(p)
    \/ fetchPage_return(p)
    \/ sendFriendRequest_settled(p)

Next ==
    \/ SetCookie
    \/ \E p \in Procs : Resume(p)
    \/ \E p \in Procs : Invoke(p)

Spec == Init /\ [][Next]_vars

(***************************************************************************)
(* Vocabulary of the properties.                                           *)
(***************************************************************************)
MutatingActions ==
    {"updateProfile", "addHobby", "addExistingHobbyToProfile",
     "deleteHobbyFromProfile", "sendFriendRequest"}
ProfileWriters ==
    {"updateProfile", "addExistingHobbyToProfile", "deleteHobbyFromProfile"}
StatusCheckers ==
    {"addHobby", "addExistingHobbyToProfile", "deleteHobbyFromProfile"}

\* the cookie csrftoken is absent from document.cookie
TokenAbsent == \A i \in DOMAIN cookie : cookie[i].name # "csrftoken"

\* steps of slot p: it is invoked, it is resumed with a response, it returns
Invoked(p) == pc[p] = "idle" /\ pc'[p] # "idle"
Settles(p, f) == pc[p] = "recv" /\ frame[p] = f /\ pc'[p] # "recv"
Returns(p) == pc[p] \in {"idle", "recv", "ret"} /\ pc'[p] = "done"
Moves(p) == pc'[p] # pc[p] /\ pc'[p] # "past"

GetProfile == <<"GET", "/api/profile/">>
GetHobbies == <<"GET", "/api/hobbies/">>

\* C2: a mutating action invoked while the cookie csrftoken is absent issues no
\* request, leaves the store as it was and returns
\* {success: false, error: "CSRF token not found"}.
C2_NoTokenNoRequest ==
    [][\A p \in Procs :
          (Invoked(p) /\ op'[p] \in MutatingActions /\ TokenAbsent)
          => /\ reqs'[p] = <<>>
             /\ req'[p] = NoReq
             /\ pc'[p] = "done"
             /\ result'[p] = CsrfFailure
             /\ store' = store]_vars

C2_Witness ==
    \E p \in Procs :
        /\ pc[p] = "done"
        /\ op[p] = "deleteHobbyFromProfile"
        /\ TokenAbsent
        /\ reqs[p] = <<>>
        /\ result[p] = CsrfFailure
        /\ userData # Null

\* C3: when fetchUserProfile is resumed with a 401 or a 403 it navigates to
\* /login/ and changes no field of the store.
C3_AuthFailureNavigates ==
    [][\A p \in Procs :
          (/\ Settles(p, "fetchUserProfile")
           /\ Awaited(p).kind = "http"
           /\ Awaited(p).status \in {401, 403})
          => /\ location' = "/login/"
             /\ navs'[p] = navs[p] + 1
             /\ store' = store]_vars

C3_Witness ==
    \E p \in Procs :
        /\ pc[p] = "done"
        /\ op[p] = "fetchUserProfile"
        /\ resp[p].kind = "http"
        /\ resp[p].status = 403
        /\ navs[p] = 1
        /\ location = "/login/"
        /\ userData # Null

\* C4: when addHobby, addExistingHobbyToProfile or deleteHobbyFromProfile is
\* resumed with a 2xx response whose status field is not 'success', it leaves
\* the store as it was, issues no further request and returns
\* {success: false, error: <the server's errors value>}.
C4_LogicalFailure ==
    [][\A p \in Procs :
          (/\ pc[p] = "recv"
           /\ frame[p] \in StatusCheckers
           /\ frame[p] = op[p]
           /\ Moves(p)
           /\ Assigns(resp[p])
           /\ resp[p].body.status # "success")
          => /\ store' = store
             /\ reqs'[p] = reqs[p]
             /\ pc'[p] = "done"
             /\ result'[p] = Failure(resp[p].body.errors)]_vars

C4_Witness ==
    \E p \in Procs :
        /\ pc[p] = "done"
        /\ op[p] = "addHobby"
        /\ Assigns(resp[p])
        /\ resp[p].body.status = "error"
        /\ result[p] = Failure(Str("Invalid data"))
        /\ Len(reqs[p]) = 1
        /\ hobbies # <<>>

\* C5: an invocation of updateProfile, addExistingHobbyToProfile or
\* deleteHobbyFromProfile that returns {success: true} has issued exactly its
\* mutating request and then GET /api/profile/, and has been resumed with the
\* answer to that GET; addHobby likewise with GET /api/hobbies/; and a step of
\* such an invocation changes the store only when it is the fetch action being
\* resumed with the answer to the refetch.
C5_RefetchAfterWrite ==
    [][\A p \in Procs :
          /\ (Returns(p) /\ op[p] \in ProfileWriters /\ Succeeded(result'[p]))
             => /\ Len(reqs[p]) = 2
                /\ reqs[p][1][1] \in {"PUT", "POST"}
                /\ reqs[p][2] = GetProfile
                /\ pc[p] = "ret"
                /\ refetched[p].kind # "none"
          /\ (Returns(p) /\ op[p] = "addHobby" /\ Succeeded(result'[p]))
             => /\ Len(reqs[p]) = 2
                /\ reqs[p][1] = <<"POST", "/api/hobbies/">>
                /\ reqs[p][2] = GetHobbies
                /\ pc[p] = "ret"
                /\ refetched[p].kind # "none"
          /\ (/\ Moves(p)
              /\ op'[p] \in ProfileWriters \cup {"addHobby"}
              /\ store' # store)
             => /\ pc[p] = "recv"
                /\ frame[p] \in {"fetchUserProfile", "fetchHobbies"}
                /\ Len(reqs[p]) = 2]_vars

C5_Witness ==
    \E p \in Procs :
        /\ pc[p] = "done"
        /\ op[p] = "addExistingHobbyToProfile"
        /\ Succeeded(result[p])
        /\ reqs[p] = <<<<"POST", "/api/profile/add_hobby">>, GetProfile>>
        /\ Assigns(refetched[p])
        /\ userData = refetched[p].body

\* C10: when fetchSimilarUsers is resumed with a readable 2xx response
\* {similar_users, page, total_pages}, similarUsers, currentPage and totalPages
\* become exactly those three values (currentPage the page the server reports)
\* and userData and hobbies keep their values.
C10_PageReplacedWholesale ==
    [][\A p \in Procs :
          (Settles(p, "fetchSimilarUsers") /\ Assigns(Awaited(p)))
          => /\ similarUsers' = Awaited(p).body.similar_users
             /\ currentPage' = Awaited(p).body.page
             /\ totalPages' = Awaited(p).body.total_pages
             /\ userData' = userData
             /\ hobbies' = hobbies]_vars

C10_Witness ==
    \E p \in Procs :
        /\ pc[p] = "done"
        /\ op[p] = "fetchSimilarUsers"
        /\ Assigns(resp[p])
        /\ resp[p].body.page # arg[p].page
        /\ resp[p].body.page # resp[p].body.total_pages
        /\ currentPage = resp[p].body.page
        /\ totalPages = resp[p].body.total_pages
        /\ similarUsers = resp[p].body.similar_users
        /\ similarUsers # <<>>
        /\ userData # Null

\* C1: when an invocation of updateProfile has returned {success: true},
\* userData equals the profile the server holds.
C1_SuccessMeansServerProfile ==
    \A p \in Procs :
        (pc[p] = "done" /\ op[p] = "updateProfile" /\ Succeeded(result[p]))
        => userData = srvProfile

\* C6: when an invocation of addHobby(name) has returned {success: true}, the
\* store's hobbies holds a hobby called name.
C6_AddedHobbyListed ==
    \A p \in Procs :
        (pc[p] = "done" /\ op[p] = "addHobby" /\ Succeeded(result[p]))
        => \E i \in DOMAIN hobbies : hobbies[i].name = arg[p]

(***************************************************************************)
(* Overlapping invocations of updateProfile and fetchUserProfile: nothing  *)
(* makes an invocation wait for the one before it.                         *)
(***************************************************************************)
RaceUpdates == {[first_name |-> n] : n \in FirstNames}

InitRace == Init /\ Truthy(getCookie(cookie, "csrftoken"))

NextRace ==
    \E p \in Procs :
        \/ Network(p)
        \/ fetchUserProfile(p)
        \/ fetchUserProfile_settled(p)
        \/ \E updatedData \in RaceUpdates : updateProfile(p, updatedData)
        \/ updateProfile_settled(p)
        \/ updateProfile_return(p)

SpecRace == InitRace /\ [][NextRace]_vars

\* C7: once no invocation is in flight, userData is the body of the last
\* readable 2xx answer to GET /api/profile/ that a fetchUserProfile was resumed
\* with, whichever invocation it belonged to.
C7_LastLandedWins ==
    (Quiescent /\ landed.slot # 0) => userData = landed.body

\* two updateProfile calls whose refetches landed in the opposite order of the
\* calls: the store is left with the answer to the earlier call
C7_Witness ==
    \E p, q \in Procs :
        /\ p < q
        /\ op[p] = "updateProfile" /\ op[q] = "updateProfile"
        /\ pc[p] = "done" /\ pc[q] = "done"
        /\ Assigns(refetched[p]) /\ Assigns(refetched[q])
        /\ refetched[p].body # refetched[q].body
        /\ landed.slot = p
        /\ userData = refetched[p].body
        /\ userData # srvProfile

(***************************************************************************)
(* updateProfile's request for every input: the invocation alone.          *)
(***************************************************************************)
MaxRefs == 2       \* longest hobbies list of an update

First == CHOOSE p \in Procs : \A q \in Procs : p <= q

NextBody ==
    \/ SetCookie
    \/ \E updatedData \in Updates(MaxRefs) : updateProfile(First, updatedData)

SpecBody == Init /\ [][NextBody]_vars

\* C8: the body of the PUT that updateProfile issues for an input with a
\* hobbies list has the keys of the input; its hobbies is a list of ids of the
\* same length, element for element the raw id or the id of the Hobby object;
\* every other field is the input's.
C8_BodyHobbiesAreIds ==
    \A p \in Procs :
        (/\ op[p] = "updateProfile"
         /\ pc[p] = "sent"
         /\ "hobbies" \in DOMAIN arg[p])
        => LET body == req[p].body
               given == arg[p].hobbies
           IN  /\ req[p].method = "PUT"
               /\ DOMAIN body = DOMAIN arg[p]
               /\ Len(body.hobbies) = Len(given)
               /\ \A i \in DOMAIN given :
                     /\ body.hobbies[i] \in HobbyIds
                     /\ given[i].kind = "number" => body.hobbies[i] = given[i].value
                     /\ given[i].kind = "object" => body.hobbies[i] = given[i].id
               /\ \A k \in DOMAIN arg[p] \ {"hobbies"} : body[k] = arg[p][k]

C8_Witness ==
    \E p \in Procs :
        /\ op[p] = "updateProfile"
        /\ pc[p] = "sent"
        /\ "first_name" \in DOMAIN arg[p]
        /\ "hobbies" \in DOMAIN arg[p]
        /\ Len(arg[p].hobbies) = MaxRefs
        /\ arg[p].hobbies[1].kind = "object"
        /\ arg[p].hobbies[MaxRefs].kind = "number"
        /\ arg[p].hobbies[1].id > arg[p].hobbies[MaxRefs].value
        /\ req[p].body.hobbies[1] > req[p].body.hobbies[MaxRefs]

(***************************************************************************)
(* fetchSimilarUsers' request for every FilterParams: the invocation alone.*)
(***************************************************************************)
NextQuery ==
    \/ \E params \in Filters : fetchSimilarUsers(First, params)
    \/ \E params \in Filters :
          fetchPage(First, params.page, params.minAge, params.maxAge)

SpecQuery == Init /\ [][NextQuery]_vars

\* an age bound is supplied when the field holds a number
Supplied(v) == v.type = "number"

SuppliedQuery(params) ==
    "page=" \o ToString(params.page)
    \o (IF Supplied(params.minAge)
        THEN "&min_age=" \o ToString(params.minAge.value) ELSE "")
    \o (IF Supplied(params.maxAge)
        THEN "&max_age=" \o ToString(params.maxAge.value) ELSE "")

\* C9: the request of fetchSimilarUsers goes to
\* /api/users/similar_with_filters/ with the query page=<page>, then
\* min_age=<minAge> exactly when a minimum age is supplied, then
\* max_age=<maxAge> exactly when a maximum age is supplied.
C9_QueryCarriesSuppliedBounds ==
    \A p \in Procs :
        (frame[p] = "fetchSimilarUsers" /\ pc[p] = "sent")
        => /\ req[p].method = "GET"
           /\ req[p].url = "/api/users/similar_with_filters/?"
                           \o SuppliedQuery(arg[p])

\* C11: when fetchHobbies or fetchSimilarUsers is resumed with a failure (a
\* transport error, a non-2xx status or a body that does not parse), every
\* field of the store keeps its value.
C11_FailedFetchLeavesStore ==
    [][\A p \in Procs :
          (/\ Settles(p, "fetchHobbies") \/ Settles(p, "fetchSimilarUsers")
           /\ ~Assigns(Awaited(p)))
          => store' = store]_vars

C11_Witness ==
    \E p \in Procs :
        /\ pc[p] = "done"
        /\ op[p] = "fetchSimilarUsers"
        /\ Unreadable(resp[p])
        /\ similarUsers # <<>>
        /\ currentPage = MaxPage

\* C12: every step of an invocation of sendFriendRequest leaves userData,
\* hobbies, similarUsers, currentPage and totalPages as they were; the
\* invocation issues at most its one POST and no refetch; it returns
\* {success: true} exactly when it issued the POST (the token was there) and was
\* resumed with a 2xx response, and {success: false, error} otherwise.
C12_FriendRequestLeavesStore ==
    [][\A p \in Procs :
          (Moves(p) /\ op'[p] = "sendFriendRequest")
          => /\ store' = store
             /\ reqs'[p] \in {<<>>, <<<<"POST", "/api/send_request/">>>>}
             /\ (Invoked(p) /\ reqs'[p] # <<>>) => ~TokenAbsent
             /\ Returns(p)
                => /\ Succeeded(result'[p]) \/ Failed(result'[p])
                   /\ Succeeded(result'[p])
                      <=> /\ reqs'[p] # <<>>
                          /\ resp'[p].kind = "http"
                          /\ ok(resp'[p])]_vars

\* a friend request accepted with a body that does not parse, the store filled
C12_Witness ==
    \E p \in Procs :
        /\ pc[p] = "done"
        /\ op[p] = "sendFriendRequest"
        /\ Succeeded(result[p])
        /\ Unreadable(resp[p])
        /\ ok(resp[p])
        /\ userData # Null

FetchActions ==
    {"fetchUserProfile", "fetchHobbies", "fetchSimilarUsers", "fetchPage"}

\* a value of the shape {success: true, ...} or {success: false, error}
Structured(res) ==
    \/ Succeeded(res)
    \/ Failed(res) /\ DOMAIN res = {"success", "error"}

\* C13: an invocation that was resumed with any answer (a transport error, a
\* non-2xx status, an unreadable body, a logical failure, a success) can take
\* its next step, and an invocation that is over has resolved: a mutating
\* action with a value {success, error}, a fetch action with undefined.
C13_ErrorsContained ==
    \A p \in Procs :
        /\ pc[p] \in {"recv", "ret"} => ENABLED Resume(p)
        /\ pc[p] \in {"sent", "recv", "ret"} => result[p] = Undefined
        /\ pc[p] = "done"
           => IF op[p] \in MutatingActions
              THEN Structured(result[p])
              ELSE op[p] \in FetchActions /\ result[p] = Undefined

\* updateProfile refused with a body that does not parse: the rejection of
\* response.json() is the error of the result
C13_Witness ==
    \E p \in Procs :
        /\ pc[p] = "done"
        /\ op[p] = "updateProfile"
        /\ Unreadable(resp[p])
        /\ ~ok(resp[p])
        /\ result[p] = Failure(JsonRejection)

\* the first request of the invocation of slot p has been answered and the
\* answer is a failure for the action: a transport error, a non-2xx status or,
\* where the action reads the body, a body that does not parse or a status
\* field other than 'success'
FirstFailed(p) ==
    /\ resp[p].kind # "none"
    /\ \/ Rejected(resp[p])
       \/ ~ok(resp[p])
       \/ /\ op[p] \notin {"updateProfile", "sendFriendRequest"}
          /\ ~resp[p].json
       \/ /\ op[p] \in StatusCheckers
          /\ resp[p].json
          /\ resp[p].body.status # "success"

\* C14: an invocation issues at most two requests, never the same one twice: a
\* fetch action its one GET, a mutating action at most one PUT or POST and
\* then at most one GET (the refetch); once its first request has failed it
\* has issued no other, and the refetch is its last whatever the answer.
C14_NoRetries ==
    \A p \in Procs :
        LET issued == reqs[p]
        IN  /\ Len(issued) <= 2
            /\ Len(issued) = 2
               => /\ op[p] \in MutatingActions
                  /\ issued[1][1] \in {"PUT", "POST"}
                  /\ issued[2][1] = "GET"
            /\ (Len(issued) = 1 /\ op[p] \in MutatingActions)
               => issued[1][1] \in {"PUT", "POST"}
            /\ op[p] \in FetchActions => Len(issued) = 1 /\ issued[1][1] = "GET"
            /\ FirstFailed(p) => Len(issued) = 1 /\ pc[p] \in {"recv", "done"}
            /\ (op[p] \in MutatingActions /\ refetched[p].kind # "none")
               => Len(issued) = 2 /\ pc[p] \in {"recv", "ret", "done"}

\* addHobby over after a refetch that met a transport error: two requests, the
\* POST and the GET, and no more
C14_Witness ==
    \E p \in Procs :
        /\ pc[p] = "done"
        /\ op[p] = "addHobby"
        /\ Assigns(resp[p])
        /\ Rejected(refetched[p])
        /\ reqs[p] = <<<<"POST", "/api/hobbies/">>, GetHobbies>>

\* C15: when fetchUserProfile, called directly or as the refetch of
\* updateProfile, addExistingHobbyToProfile or deleteHobbyFromProfile, is
\* resumed with anything but a readable 2xx response (a 401 or 403, another
\* non-2xx status, a transport error, a body that does not parse), the
\* invocation navigates to /login/ once, having not navigated before, and
\* userData keeps its value; no other step of an invocation navigates.
C15_FailedProfileFetchNavigatesOnce ==
    [][\A p \in Procs :
          /\ (Settles(p, "fetchUserProfile") /\ ~Assigns(Awaited(p)))
             => /\ navs[p] = 0
                /\ navs'[p] = 1
                /\ location' = "/login/"
                /\ userData' = userData
          /\ (Moves(p) /\ (navs'[p] > navs[p] \/ location' # location))
             => /\ Settles(p, "fetchUserProfile")
                /\ ~Assigns(Awaited(p))]_vars

\* deleteHobbyFromProfile accepted, its refetch answered 2xx with a body that
\* does not parse: one navigation, userData as it was
C15_Witness ==
    \E p \in Procs :
        /\ pc[p] = "done"
        /\ op[p] = "deleteHobbyFromProfile"
        /\ Succeeded(result[p])
        /\ Unreadable(refetched[p])
        /\ ok(refetched[p])
        /\ navs[p] = 1
        /\ location = "/login/"
        /\ userData # Null

Writers == ProfileWriters \cup {"addHobby"}

\* C16: when updateProfile, addHobby, addExistingHobbyToProfile or
\* deleteHobbyFromProfile is resumed with a transport error or a non-2xx
\* response to its mutating request, it returns {success: false, error} in
\* that step, having issued that one request only and never navigated, and
\* the store and the location keep their values.
C16_RefusedWriteFailsQuietly ==
    [][\A p \in Procs :
          (/\ pc[p] = "recv"
           /\ op[p] \in Writers
           /\ frame[p] = op[p]
           /\ Moves(p)
           /\ Rejected(resp[p]) \/ ~ok(resp[p]))
          => /\ pc'[p] = "done"
             /\ Failed(result'[p])
             /\ DOMAIN result'[p] = {"success", "error"}
             /\ Len(reqs'[p]) = 1
             /\ navs'[p] = 0
             /\ location' = location
             /\ store' = store]_vars

\* updateProfile refused with a 400 whose errors field is empty: the default
\* message is the error, the store is as it was
C16_Witness ==
    \E p \in Procs :
        /\ pc[p] = "done"
        /\ op[p] = "updateProfile"
        /\ resp[p].kind = "http"
        /\ resp[p].status = 400
        /\ resp[p].json
        /\ resp[p].body.errors = Str("")
        /\ result[p] = Failure(ErrorObj("Failed to update profile"))
        /\ Len(reqs[p]) = 1
        /\ navs[p] = 0
        /\ userData # Null

\* the mutating request of the invocation of slot p was accepted: answered 2xx
\* and, where the action checks the status field of the body, with 'success'
Accepted(p) ==
    /\ resp[p].kind = "http"
    /\ ok(resp[p])
    /\ op[p] \in StatusCheckers => resp[p].json /\ resp[p].body.status = "success"

\* C17: an invocation of updateProfile, addHobby, addExistingHobbyToProfile or
\* deleteHobbyFromProfile that is over after issuing its mutating request has
\* returned {success: true} exactly when that request was accepted, whatever
\* the answer to the refetch was and whether or not the refetch changed the
\* store.
C17_ResultFollowsWriteOnly ==
    \A p \in Procs :
        (pc[p] = "done" /\ op[p] \in Writers /\ reqs[p] # <<>>)
        => /\ Succeeded(result[p]) <=> Accepted(p)
           /\ Accepted(p) => refetched[p].kind # "none"

\* addHobby accepted and returned success with the new hobby while its refetch
\* failed and hobbies stayed empty
C17_Witness ==
    \E p \in Procs :
        /\ pc[p] = "done"
        /\ op[p] = "addHobby"
        /\ Accepted(p)
        /\ result[p] = [success |-> TRUE, hobby |-> resp[p].body.hobby]
        /\ ~Assigns(refetched[p])
        /\ hobbies = <<>>
        /\ srvHobbies # <<>>

(***************************************************************************)
(* Overlapping invocations of fetchSimilarUsers and fetchPage.             *)
(***************************************************************************)
\* the answer does not depend on the page asked for: one request per action
FirstPages == {f \in SomeFilters : f.page = 1}
LastPages == {f \in SomeFilters : f.page = MaxPage}

InitPages == Init /\ cookie = <<>>

NextPages ==
    \E p \in Procs :
        \/ Network(p)
        \/ \E params \in FirstPages : fetchSimilarUsers(p, params)
        \/ fetchSimilarUsers_settled(p)
        \/ \E params \in LastPages :
              fetchPage(p, params.page, params.minAge, params.maxAge)
        \/ fetchPage_return(p)

SpecPages == InitPages /\ [][NextPages]_vars

\* C18: in every state, whatever the order in which overlapping invocations
\* of fetchSimilarUsers and fetchPage are answered and resumed,
\* (similarUsers, currentPage, totalPages) is the initial ([], 1, 1) or is
\* (similar_users, page, total_pages) of one response, the last readable 2xx
\* answer that a fetchSimilarUsers was resumed with.
C18_PageFromOneResponse ==
    \/ /\ shown = NoneShown
       /\ <<similarUsers, currentPage, totalPages>> = <<<<>>, 1, 1>>
    \/ /\ shown # NoneShown
       /\ similarUsers = shown.similar_users
       /\ currentPage = shown.page
       /\ totalPages = shown.total_pages

\* fetchSimilarUsers and then fetchPage, answered with pages that differ in
\* every field, resumed in the opposite order: the store holds the answer to
\* the first, whole
C18_Witness ==
    \E p, q \in Procs :
        /\ p < q
        /\ op[p] = "fetchSimilarUsers" /\ op[q] = "fetchPage"
        /\ pc[p] = "done" /\ pc[q] = "done"
        /\ Assigns(resp[p]) /\ Assigns(refetched[q])
        /\ resp[p].body.similar_users # refetched[q].body.similar_users
        /\ resp[p].body.page # refetched[q].body.page
        /\ resp[p].body.total_pages # refetched[q].body.total_pages
        /\ shown = resp[p].body
        /\ similarUsers = resp[p].body.similar_users
        /\ currentPage = resp[p].body.page
        /\ totalPages = resp[p].body.total_pages

====
